---- MODULE Spec2Model ----
(***************************************************************************)
(* zd: a decoder for the header and load-command stream of a 64-bit        *)
(* Mach-O object file (src/main.c).                                        *)
(*                                                                         *)
(* The input file is a sequence of bytes.  A 32-bit value is an integer;   *)
(* TLC integers are 32 bits wide, so the input files enumerated here keep  *)
(* the top byte of every 32-bit word below 128, and a 64-bit value is the  *)
(* pair <<low word, high word>>.  The code never checks the result of      *)
(* fread or fseek: a fread that comes up short leaves its destination      *)
(* indeterminate, which is a choice here over JunkVals / JunkTags.         *)
(***************************************************************************)
EXTENDS Integers, Sequences, FiniteSets, TLC

VARIABLES
    argc,          \* main's argc
    pc,            \* position in main / parse_file
    opened,        \* fopen has been called
    file,          \* the bytes of the file behind FILE *file
    seekable,      \* whether fseek on the stream can succeed
    pos,           \* the stream cursor
    object_file,   \* the global struct mach_object_file_t
    string_table,  \* the local char *string_table of parse_file's second loop
    seeks,         \* every fseek call made: its offset and whether it succeeded
    short_read,    \* some fread returned fewer items than asked (result discarded by the code)
    exit_status,   \* the process exit status, once pc = "exited"
    diag,          \* diagnostics printed by main and by parse_file
    out,           \* what pretty_print has printed
    input          \* how the file was built: the kinds of its commands, the bytes cut

vars == <<argc, pc, opened, file, seekable, pos, object_file, string_table,
          seeks, short_read, exit_status, diag, out, input>>

-----------------------------------------------------------------------------
(* Bounds of the model *)

MaxArgc == 3
MaxCmds == 2
MaxCut == 32

(* Program constants *)

LC_SYMTAB == 2
LC_DYSYMTAB == 11
LC_LOAD_DYLIB == 12
LC_SEGMENT_64 == 25
LC_BUILD_VERSION == 50
EXIT_SUCCESS == 0
EXIT_FAILURE == 1

HeaderSize == 32
TagSize == 8
SegmentSize == 64
SectionSize == 80
SymtabSize == 16
DysymtabSize == 72
BuildVersionSize == 16
NlistSize == 16

-----------------------------------------------------------------------------
(* Bytes and words *)

Min(a, b) == IF a < b THEN a ELSE b

RECURSIVE Concat(_)
Concat(ss) == IF ss = <<>> THEN <<>> ELSE Head(ss) \o Concat(Tail(ss))

Enc8(v) == << v % 256 >>
Enc16(v) == << v % 256, (v \div 256) % 256 >>
Enc32(v) == << v % 256, (v \div 256) % 256, (v \div 65536) % 256, (v \div 16777216) % 256 >>
Enc64(v) == Enc32(v[1]) \o Enc32(v[2])

\* the value fread stores for a little-endian item found whole at offset p
LE16(f, p) == f[p + 1] + 256 * f[p + 2]
LE32(f, p) == f[p + 1] + 256 * f[p + 2] + 65536 * f[p + 3] + 16777216 * f[p + 4]

\* fread(&x, n, 1, file) at cursor p reads the item whole
Whole(f, p, n) == p + n <= Len(f)

\* the cursor after fread calls asking for n bytes in all, starting at p
NewPos(f, p, n) == IF p >= Len(f) THEN p ELSE Min(p + n, Len(f))

\* fread into an uninitialised local: indeterminate (j) unless read whole
U8(f, p, j) == IF Whole(f, p, 1) THEN f[p + 1] ELSE j
U16(f, p, j) == IF Whole(f, p, 2) THEN LE16(f, p) ELSE j
U32(f, p, j) == IF Whole(f, p, 4) THEN LE32(f, p) ELSE j
U64(f, p, j) == IF Whole(f, p, 8) THEN << LE32(f, p), LE32(f, p + 4) >> ELSE << j, j >>

\* fread(buf, 1, n, file): the bytes found are stored, the rest of buf is untouched
Bytes(f, p, n, j) == [k \in 1..n |-> IF p + k <= Len(f) THEN f[p + k] ELSE j]

\* fread into a field of the zero-initialised global object_file
G32(f, p, j) == IF Whole(f, p, 4) THEN LE32(f, p) ELSE IF p < Len(f) THEN j ELSE 0

\* values an indeterminate word / an indeterminate tag may turn out to hold
JunkVals == {0, 1}
JunkTags == {0, LC_SYMTAB, LC_SEGMENT_64}

\* an uninitialised pointer, and one that points at allocated data
Unset == [alloc |-> FALSE, data |-> <<>>]
Alloc(d) == [alloc |-> TRUE, data |-> d]

-----------------------------------------------------------------------------
(* The record layouts of the file format, field by field in stream order *)

DysymtabFields ==
    << "ilocalsym", "nlocalsym", "iextdefsym", "nextdefsym", "iundefsym", "nundefsym",
       "tocoff", "ntoc", "modtaboff", "nmodtab", "extrefsymoff", "nextrefsyms",
       "indirectsymoff", "nindirectsyms", "extreloff", "nextrel", "locreloff", "nlocrel" >>

FieldIndex(n) == CHOOSE k \in 1..Len(DysymtabFields) : DysymtabFields[k] = n

EncNlist(e) ==
    Enc32(e.n_strx) \o Enc8(e.n_type) \o Enc8(e.n_sect) \o Enc16(e.n_desc) \o Enc64(e.n_value)

EncSection(s) ==
    s.sectname \o s.segname \o Enc64(s.addr) \o Enc64(s.size) \o Enc32(s.offset)
      \o Enc32(s.align) \o Enc32(s.reloff) \o Enc32(s.nreloc) \o Enc32(s.flags)
      \o Enc32(s.reserved1) \o Enc32(s.reserved2) \o Enc32(s.reserved3)

EncSegment(g) ==
    g.segname \o Enc64(g.vmaddr) \o Enc64(g.vmsize) \o Enc64(g.fileoff) \o Enc64(g.filesize)
      \o Enc32(g.maxprot) \o Enc32(g.initprot) \o Enc32(g.nsects) \o Enc32(g.flags)
      \o Concat([k \in 1..Len(g.sections) |-> EncSection(g.sections[k])])

EncSymtab(t) == Enc32(t.symoff) \o Enc32(t.nsyms) \o Enc32(t.stroff) \o Enc32(t.strsize)

EncDysymtab(d) == Concat([k \in 1..Len(DysymtabFields) |-> Enc32(d[DysymtabFields[k]])])

EncBuildVersion(b) == Enc32(b.platform) \o Enc32(b.minos) \o Enc32(b.sdk) \o Enc32(b.ntools)

EncBody(c) ==
    CASE c.cmd = LC_SEGMENT_64 -> EncSegment(c.body)
      [] c.cmd = LC_SYMTAB -> EncSymtab(c.body)
      [] c.cmd = LC_DYSYMTAB -> EncDysymtab(c.body)
      [] c.cmd = LC_BUILD_VERSION -> EncBuildVersion(c.body)
      [] OTHER -> <<>>

\* a load command as the format lays it out: tag, size, body, and the bytes that
\* belong to the command but follow the part struct load_command_t holds
EncCommand(w) == Enc32(w.lc.cmd) \o Enc32(w.lc.cmd_size) \o EncBody(w.lc) \o w.tail

EncHeader(h) ==
    Enc32(h.magic) \o Enc32(h.cpu_type) \o Enc32(h.cpu_subtype) \o Enc32(h.file_type)
      \o Enc32(h.number_of_load_commands) \o Enc32(h.size_of_load_commands)
      \o Enc32(h.flags) \o Enc32(h.reserved)

-----------------------------------------------------------------------------
(* The input files: a header, up to MaxCmds commands drawn from Kinds, the   *)
(* symbol and string tables the symtab commands point at, and the whole      *)
(* cut short by up to MaxCut bytes.                                          *)

Kinds == {"seg0", "seg2", "symA", "symB", "dysym", "build0", "build1", "dylib"}

Pad16(s) == s \o [k \in 1..(16 - Len(s)) |-> 0]

NameText == Pad16(<< 95, 95, 84, 69, 88, 84 >>)          \* "__TEXT"
NameLower == Pad16(<< 95, 95, 116, 101, 120, 116 >>)     \* "__text"
NameData == Pad16(<< 95, 95, 100, 97, 116, 97 >>)        \* "__data"

TheSection ==
    [sectname |-> NameLower, segname |-> NameText, addr |-> << 4096, 1 >>, size |-> << 52, 0 >>,
     offset |-> 1024, align |-> 4, reloff |-> 2048, nreloc |-> 3, flags |-> 1792,
     reserved1 |-> 5, reserved2 |-> 6, reserved3 |-> 7]

TheData ==
    [sectname |-> NameData, segname |-> NameText, addr |-> << 8192, 1 >>, size |-> << 16, 0 >>,
     offset |-> 1076, align |-> 3, reloff |-> 0, nreloc |-> 0, flags |-> 0,
     reserved1 |-> 0, reserved2 |-> 0, reserved3 |-> 0]

Segment(secs) ==
    [segname |-> NameText, vmaddr |-> << 4096, 1 >>, vmsize |-> << 8192, 0 >>,
     fileoff |-> << 512, 0 >>, filesize |-> << 640, 0 >>, maxprot |-> 7, initprot |-> 5,
     nsects |-> Len(secs), flags |-> 9, sections |-> secs]

StrA == << 0, 109, 97, 105, 110, 0, 95, 104, 101, 108, 112, 101, 114, 0 >>  \* "\0main\0_helper\0"
SymsA ==
    << [n_strx |-> 1, n_type |-> 15, n_sect |-> 1, n_desc |-> 0, n_value |-> << 4096, 1 >>],
       [n_strx |-> 6, n_type |-> 14, n_sect |-> 2, n_desc |-> 128, n_value |-> << 4112, 0 >>] >>
StrB == << 0, 95, 98, 0 >>                                                   \* "\0_b\0"
SymsB == << [n_strx |-> 1, n_type |-> 1, n_sect |-> 0, n_desc |-> 256, n_value |-> << 0, 0 >>] >>

TheDysymtab == [n \in {DysymtabFields[k] : k \in 1..Len(DysymtabFields)} |-> 100 + FieldIndex(n)]

BuildVersion(n) == [platform |-> 1, minos |-> 720896, sdk |-> 852224, ntools |-> n]

\* one tool entry of a build-version command: tool = 3 (ld), version
ToolEntry == Enc32(3) \o Enc32(39911424)

Has(ks, k) == \E i \in 1..Len(ks) : ks[i] = k

\* the bytes a command of kind k takes in the stream
KindSize(k) ==
    CASE k = "seg0" -> TagSize + SegmentSize
      [] k = "seg2" -> TagSize + SegmentSize + 2 * SectionSize
      [] k \in {"symA", "symB"} -> TagSize + SymtabSize
      [] k = "dysym" -> TagSize + DysymtabSize
      [] k = "build0" -> TagSize + BuildVersionSize
      [] k = "build1" -> TagSize + BuildVersionSize + Len(ToolEntry)
      [] k = "dylib" -> TagSize + 8

RECURSIVE CmdsSize(_)
CmdsSize(ks) == IF ks = <<>> THEN 0 ELSE KindSize(Head(ks)) + CmdsSize(Tail(ks))

\* where the out-of-line tables of the file built from ks start
SymoffA(ks) == HeaderSize + CmdsSize(ks)
StroffA(ks) == SymoffA(ks) + NlistSize * Len(SymsA)
SymoffB(ks) == IF Has(ks, "symA") THEN StroffA(ks) + Len(StrA) ELSE SymoffA(ks)
StroffB(ks) == SymoffB(ks) + NlistSize * Len(SymsB)

Symtab(so, n, st, sz) ==
    [symoff |-> so, nsyms |-> n, stroff |-> st, strsize |-> sz,
     string_table |-> Unset, symbol_table |-> Unset]

\* the command of kind k in the file built from ks
Written(k, ks) ==
    CASE k = "seg0" ->
           [lc |-> [cmd |-> LC_SEGMENT_64, cmd_size |-> KindSize(k), body |-> Segment(<<>>)],
            tail |-> <<>>]
      [] k = "seg2" ->
           [lc |-> [cmd |-> LC_SEGMENT_64, cmd_size |-> KindSize(k),
                    body |-> Segment(<< TheSection, TheData >>)],
            tail |-> <<>>]
      [] k = "symA" ->
           [lc |-> [cmd |-> LC_SYMTAB, cmd_size |-> KindSize(k),
                    body |-> Symtab(SymoffA(ks), Len(SymsA), StroffA(ks), Len(StrA))],
            tail |-> <<>>]
      [] k = "symB" ->
           [lc |-> [cmd |-> LC_SYMTAB, cmd_size |-> KindSize(k),
                    body |-> Symtab(SymoffB(ks), Len(SymsB), StroffB(ks), Len(StrB))],
            tail |-> <<>>]
      [] k = "dysym" ->
           [lc |-> [cmd |-> LC_DYSYMTAB, cmd_size |-> KindSize(k), body |-> TheDysymtab],
            tail |-> <<>>]
      [] k = "build0" ->
           [lc |-> [cmd |-> LC_BUILD_VERSION, cmd_size |-> KindSize(k), body |-> BuildVersion(0)],
            tail |-> <<>>]
      [] k = "build1" ->
           [lc |-> [cmd |-> LC_BUILD_VERSION, cmd_size |-> KindSize(k), body |-> BuildVersion(1)],
            tail |-> ToolEntry]
      [] k = "dylib" ->
           [lc |-> [cmd |-> LC_LOAD_DYLIB, cmd_size |-> KindSize(k), body |-> <<>>],
            tail |-> << 24, 0, 0, 0, 2, 0, 0, 0 >>]

WrittenCmds(ks) == [i \in 1..Len(ks) |-> Written(ks[i], ks)]

WrittenHeader(ks) ==
    [magic |-> 15596239, cpu_type |-> 16777223, cpu_subtype |-> 3, file_type |-> 1,
     number_of_load_commands |-> Len(ks), size_of_load_commands |-> CmdsSize(ks),
     flags |-> 8192, reserved |-> 0]

TablesOf(ks) ==
    (IF Has(ks, "symA") THEN Concat([k \in 1..Len(SymsA) |-> EncNlist(SymsA[k])]) \o StrA ELSE <<>>)
      \o (IF Has(ks, "symB") THEN Concat([k \in 1..Len(SymsB) |-> EncNlist(SymsB[k])]) \o StrB
          ELSE <<>>)

FullFile(ks) ==
    EncHeader(WrittenHeader(ks))
      \o Concat([i \in 1..Len(ks) |-> EncCommand(WrittenCmds(ks)[i])])
      \o TablesOf(ks)

KindSeqs == UNION {[1..n -> Kinds] : n \in 0..MaxCmds}

-----------------------------------------------------------------------------
(* parse_file: the record readers *)

ReadSection(f, p, j) ==
    [sectname |-> Bytes(f, p, 16, j), segname |-> Bytes(f, p + 16, 16, j),
     addr |-> U64(f, p + 32, j), size |-> U64(f, p + 40, j),
     offset |-> U32(f, p + 48, j), align |-> U32(f, p + 52, j),
     reloff |-> U32(f, p + 56, j), nreloc |-> U32(f, p + 60, j),
     flags |-> U32(f, p + 64, j), reserved1 |-> U32(f, p + 68, j),
     reserved2 |-> U32(f, p + 72, j), reserved3 |-> U32(f, p + 76, j)]

\* a section loop that stops one record early
ReadSectionsShort(f, p, n, j) ==
    [k \in 1..(n - 1) |-> ReadSection(f, p + SectionSize * (k - 1), j)]

\* for (k = 0; k < segment.nsects; k++) segment.sections[k] = section;
ReadSections(f, p, n, j) == [k \in 1..n |-> ReadSection(f, p + SectionSize * (k - 1), j)]

ReadSegment(f, p, j) ==
    LET n == U32(f, p + 56, j)
    IN  [segname |-> Bytes(f, p, 16, j),
         vmaddr |-> U64(f, p + 16, j), vmsize |-> U64(f, p + 24, j),
         fileoff |-> U64(f, p + 32, j), filesize |-> U64(f, p + 40, j),
         maxprot |-> U32(f, p + 48, j), initprot |-> U32(f, p + 52, j),
         nsects |-> n, flags |-> U32(f, p + 60, j),
         sections |-> ReadSections(f, p + SegmentSize, n, j)]

ReadDysymtab(f, p, j) ==
    [n \in {DysymtabFields[k] : k \in 1..Len(DysymtabFields)} |->
        U32(f, p + 4 * (FieldIndex(n) - 1), j)]

\* the two pointer members are not assigned here
ReadSymtab(f, p, j) ==
    [symoff |-> U32(f, p, j), nsyms |-> U32(f, p + 4, j),
     stroff |-> U32(f, p + 8, j), strsize |-> U32(f, p + 12, j),
     string_table |-> Unset, symbol_table |-> Unset]

ReadBuildVersion(f, p, j) ==
    [platform |-> U32(f, p, j), minos |-> U32(f, p + 4, j),
     sdk |-> U32(f, p + 8, j), ntools |-> U32(f, p + 12, j)]

ReadNlist(f, p, j) ==
    [n_strx |-> U32(f, p, j), n_type |-> U8(f, p + 4, j), n_sect |-> U8(f, p + 5, j),
     n_desc |-> U16(f, p + 6, j), n_value |-> U64(f, p + 8, j)]

\* for (k = 0; k < nsyms; k++) symbol_table[k] = entry;
ReadSymbols(f, p, n, j) == [k \in 1..n |-> ReadNlist(f, p + NlistSize * (k - 1), j)]

ReadHeader(f, j) ==
    [magic |-> G32(f, 0, j), cpu_type |-> G32(f, 4, j), cpu_subtype |-> G32(f, 8, j),
     file_type |-> G32(f, 12, j), number_of_load_commands |-> G32(f, 16, j),
     size_of_load_commands |-> G32(f, 20, j), flags |-> G32(f, 24, j),
     reserved |-> G32(f, 28, j), commands |-> <<>>]

\* the bytes a first-loop iteration asks fread for, once the command is decoded
Consumed(c) ==
    TagSize +
    CASE c.cmd = LC_SEGMENT_64 -> SegmentSize + SectionSize * c.body.nsects
      [] c.cmd = LC_DYSYMTAB -> DysymtabSize
      [] c.cmd = LC_SYMTAB -> SymtabSize
      [] c.cmd = LC_BUILD_VERSION -> BuildVersionSize
      [] OTHER -> 0

\* some fread asking for n bytes in all from cursor p came up short
Short(f, p, n) == n > 0 /\ p + n > Len(f)

-----------------------------------------------------------------------------
(* printf conversions *)

HexDigits == << "0", "1", "2", "3", "4", "5", "6", "7", "8", "9", "a", "b", "c", "d", "e", "f" >>

\* "%08x"
Hex32(v) == [k \in 1..8 |-> HexDigits[((v \div (16 ^ (8 - k))) % 16) + 1]]
\* "%016llx"
Hex64(v) == Hex32(v[2]) \o Hex32(v[1])

\* "%s": the bytes up to the first NUL
RECURSIVE CStr(_)
CStr(b) == IF b = <<>> \/ Head(b) = 0 THEN <<>> ELSE << Head(b) >> \o CStr(Tail(b))

Line(l, t) == [label |-> l, text |-> t]

-----------------------------------------------------------------------------
(* The program *)

Init ==
    /\ argc \in 1..MaxArgc
    /\ pc = "main"
    /\ opened = FALSE
    /\ file = <<>>
    /\ seekable = TRUE
    /\ pos = 0
    /\ object_file = [magic |-> 0, cpu_type |-> 0, cpu_subtype |-> 0, file_type |-> 0,
                      number_of_load_commands |-> 0, size_of_load_commands |-> 0,
                      flags |-> 0, reserved |-> 0, commands |-> <<>>]
    /\ string_table = Unset
    /\ seeks = <<>>
    /\ short_read = FALSE
    /\ exit_status = 0
    /\ diag = <<>>
    /\ out = <<>>
    /\ input = [kinds |-> <<>>, cut |-> 0]

\* main, argc != 2: the usage message and exit(0)
MainUsage ==
    /\ pc = "main"
    /\ argc # 2
    /\ diag' = << Line("error", "incorrect number of arguments"), Line("usage", "<filename>") >>
    /\ exit_status' = 0
    /\ pc' = "exited"
    /\ UNCHANGED <<argc, opened, file, seekable, pos, object_file, string_table, seeks,
                   short_read, out, input>>

\* main, argc = 2: fopen(argv[1], "rb") on some file (one that exists)
MainOpen ==
    /\ pc = "main"
    /\ argc = 2
    /\ \E ks \in KindSeqs, cut \in 0..MaxCut, sk \in BOOLEAN :
          LET full == FullFile(ks)
          IN  /\ file' = SubSeq(full, 1, Len(full) - Min(cut, Len(full)))
              /\ seekable' = sk
              /\ input' = [kinds |-> ks, cut |-> Min(cut, Len(full))]
    /\ opened' = TRUE
    /\ pos' = 0
    /\ pc' = "header"
    /\ UNCHANGED <<argc, object_file, string_table, seeks, short_read, exit_status, diag, out>>

\* parse_file: the eight header words, then the allocation of commands
ParseHeader ==
    /\ pc = "header"
    /\ \E j \in JunkVals : object_file' = ReadHeader(file, j)
    /\ pos' = NewPos(file, pos, HeaderSize)
    /\ short_read' = Short(file, pos, HeaderSize)
    /\ pc' = IF object_file'.number_of_load_commands > 0 THEN "loop1" ELSE "loop2"
    /\ UNCHANGED <<argc, opened, file, seekable, string_table, seeks, exit_status, diag, out,
                   input>>

\* the tag the current iteration of the first loop reads
Tag(jt) == U32(file, pos, jt)

Recognized == {LC_SEGMENT_64, LC_DYSYMTAB, LC_SYMTAB, LC_BUILD_VERSION}

\* one iteration of the first loop on a recognized tag: the command it stores
DecodeCommand(f, p, jt, jv) ==
    LET cmd == U32(f, p, jt)
    IN  [cmd |-> cmd, cmd_size |-> U32(f, p + 4, jv),
         body |-> CASE cmd = LC_SEGMENT_64 -> ReadSegment(f, p + TagSize, jv)
                    [] cmd = LC_DYSYMTAB -> ReadDysymtab(f, p + TagSize, jv)
                    [] cmd = LC_SYMTAB -> ReadSymtab(f, p + TagSize, jv)
                    [] cmd = LC_BUILD_VERSION -> ReadBuildVersion(f, p + TagSize, jv)
                    [] OTHER -> <<>>]

\* object_file.commands[i] = command; i++
StoreCommand(c) ==
    /\ object_file' = [object_file EXCEPT !.commands = Append(@, c)]
    /\ pos' = NewPos(file, pos, Consumed(c))
    /\ short_read' = (short_read \/ Short(file, pos, Consumed(c)))
    /\ pc' = IF Len(object_file.commands) + 1 < object_file.number_of_load_commands
             THEN "loop1" ELSE "loop2"
    /\ UNCHANGED <<argc, opened, file, seekable, string_table, seeks, exit_status, diag, out,
                   input>>

\* case LC_SEGMENT_64
ParseSegment64 ==
    /\ pc = "loop1"
    /\ \E jt \in JunkTags, jv \in JunkVals :
          /\ Tag(jt) = LC_SEGMENT_64
          /\ StoreCommand(DecodeCommand(file, pos, jt, jv))

\* case LC_DYSYMTAB
ParseDysymtab ==
    /\ pc = "loop1"
    /\ \E jt \in JunkTags, jv \in JunkVals :
          /\ Tag(jt) = LC_DYSYMTAB
          /\ StoreCommand(DecodeCommand(file, pos, jt, jv))

\* case LC_SYMTAB
ParseSymtab ==
    /\ pc = "loop1"
    /\ \E jt \in JunkTags, jv \in JunkVals :
          /\ Tag(jt) = LC_SYMTAB
          /\ StoreCommand(DecodeCommand(file, pos, jt, jv))

\* case LC_BUILD_VERSION
ParseBuildVersion ==
    /\ pc = "loop1"
    /\ \E jt \in JunkTags, jv \in JunkVals :
          /\ Tag(jt) = LC_BUILD_VERSION
          /\ StoreCommand(DecodeCommand(file, pos, jt, jv))

\* a default case that steps over the command by its declared size and goes on
ParseDefaultSkip ==
    /\ pc = "loop1"
    /\ \E jt \in JunkTags, jv \in JunkVals :
          /\ Tag(jt) \notin Recognized
          /\ LET c == DecodeCommand(file, pos, jt, jv)
             IN  /\ object_file' = [object_file EXCEPT !.commands = Append(@, c)]
                 /\ pos' = NewPos(file, pos, c.cmd_size)
                 /\ short_read' = (short_read \/ Short(file, pos, TagSize))
    /\ pc' = IF Len(object_file.commands) + 1 < object_file.number_of_load_commands
             THEN "loop1" ELSE "loop2"
    /\ UNCHANGED <<argc, opened, file, seekable, string_table, seeks, exit_status, diag, out,
                   input>>

\* default: printf("Encountered unexpected tag ..."); exit(EXIT_FAILURE);
ParseDefault ==
    /\ pc = "loop1"
    /\ \E jt \in JunkTags :
          /\ Tag(jt) \notin Recognized
          /\ diag' = Append(diag, Line("Encountered unexpected tag with value", Hex32(Tag(jt))))
    /\ pos' = NewPos(file, pos, TagSize)
    /\ short_read' = (short_read \/ Short(file, pos, TagSize))
    /\ exit_status' = EXIT_FAILURE
    /\ pc' = "exited"
    /\ UNCHANGED <<argc, opened, file, seekable, object_file, string_table, seeks, out, input>>

\* a second loop without its break: the body runs at every LC_SYMTAB command
ResolvedAll(cmds) ==
    SelectSeq([i \in 1..Len(cmds) |-> i], LAMBDA i : cmds[i].cmd = LC_SYMTAB)

\* the indices at which the body of the second loop runs: the first LC_SYMTAB
\* command, after which the loop breaks
Resolved(cmds) ==
    LET S == {i \in 1..Len(cmds) : cmds[i].cmd = LC_SYMTAB}
    IN  IF S = {} THEN <<>> ELSE << CHOOSE i \in S : \A k \in S : i <= k >>

\* fseek(file, off, SEEK_SET): the cursor afterwards
Seek(p, off) == IF seekable THEN off ELSE p

\* the body of the second loop at index i, on the state st of the locals and globals
ResolveAt(i, st, j) ==
    LET t == st.cmds[i].body
        p1 == Seek(st.pos, t.stroff)
        p2 == Seek(NewPos(file, p1, t.strsize), t.symoff)
    IN  [pos |-> NewPos(file, p2, NlistSize * t.nsyms),
         cmds |-> [st.cmds EXCEPT
                      ![i].body.symbol_table = Alloc(ReadSymbols(file, p2, t.nsyms, j))],
         str |-> Alloc(Bytes(file, p1, t.strsize, j)),
         seeks |-> st.seeks \o << [offset |-> t.stroff, ok |-> seekable],
                                  [offset |-> t.symoff, ok |-> seekable] >>,
         short |-> (st.short \/ Short(file, p1, t.strsize) \/ Short(file, p2, NlistSize * t.nsyms))]

RECURSIVE ResolveEach(_, _, _)
ResolveEach(is, st, j) ==
    IF is = <<>> THEN st ELSE ResolveEach(Tail(is), ResolveAt(Head(is), st, j), j)

\* the second loop, entered with the cursor at p and the seeks sk made so far
ResolveFrom(p, sk) ==
    /\ pc = "loop2"
    /\ \E j \in JunkVals :
          LET st == ResolveEach(Resolved(object_file.commands),
                                [pos |-> p, cmds |-> object_file.commands,
                                 str |-> string_table, seeks |-> sk, short |-> short_read],
                                j)
          IN  /\ pos' = st.pos
              /\ object_file' = [object_file EXCEPT !.commands = st.cmds]
              /\ string_table' = st.str
              /\ seeks' = st.seeks
              /\ short_read' = st.short
    /\ pc' = "print"
    /\ UNCHANGED <<argc, opened, file, seekable, exit_status, diag, out, input>>

\* a second loop that rewinds the stream before it scans
ResolveSymtabRewind == ResolveFrom(Seek(pos, 0), Append(seeks, [offset |-> 0, ok |-> seekable]))

\* parse_file: the second loop
ResolveSymtab == ResolveFrom(pos, seeks)

-----------------------------------------------------------------------------
(* pretty_print *)

HeaderBlock(o) ==
    [title |-> "header", tag |-> <<>>,
     lines |-> << Line("magic", Hex32(o.magic)), Line("cpu_type", Hex32(o.cpu_type)),
                  Line("cpu_subtype", Hex32(o.cpu_subtype)),
                  Line("file_type", Hex32(o.file_type)),
                  Line("number_of_load_commands", Hex32(o.number_of_load_commands)),
                  Line("size_of_load_commands", Hex32(o.size_of_load_commands)),
                  Line("flags", Hex32(o.flags)), Line("reserved", Hex32(o.reserved)) >>]

\* what "%s" walks over when given segname: the array, then the members after it
SegmentImage(g) ==
    g.segname \o Enc64(g.vmaddr) \o Enc64(g.vmsize) \o Enc64(g.fileoff) \o Enc64(g.filesize)

SegmentBlock(c) ==
    [title |-> "LC_SYMTAB", tag |-> Hex32(c.cmd),
     lines |-> << Line("segname", CStr(SegmentImage(c.body))),
                  Line("vmaddr", Hex64(c.body.vmaddr)),
                  Line("vmsize", Hex64(c.body.vmaddr)),
                  Line("fileoff", Hex64(c.body.fileoff)),
                  Line("filesize", Hex64(c.body.filesize)),
                  Line("maxprot", Hex32(c.body.maxprot)),
                  Line("initprot", Hex32(c.body.initprot)),
                  Line("nsects", Hex32(c.body.nsects)),
                  Line("flags", Hex32(c.body.flags)) >>]

BuildVersionBlock(c) ==
    [title |-> "LC_BUILD_VERSION", tag |-> Hex32(c.cmd),
     lines |-> << Line("platform", Hex32(c.body.platform)), Line("minos", Hex32(c.body.minos)),
                  Line("sdk", Hex32(c.body.sdk)), Line("ntools", Hex32(c.body.ntools)) >>]

SymtabBlock(c) ==
    [title |-> "LC_SYMTAB", tag |-> Hex32(c.cmd),
     lines |-> << Line("symoff", Hex32(c.body.symoff)), Line("nsyms", Hex32(c.body.nsyms)),
                  Line("stroff", Hex32(c.body.stroff)), Line("strsize", Hex32(c.body.strsize)) >>]

DysymtabBlock(c) ==
    [title |-> "LC_DYSYMTAB", tag |-> Hex32(c.cmd),
     lines |-> [k \in 1..Len(DysymtabFields) |->
                   Line(DysymtabFields[k], Hex32(c.body[DysymtabFields[k]]))]]

CommandBlock(c) ==
    CASE c.cmd = LC_SEGMENT_64 -> SegmentBlock(c)
      [] c.cmd = LC_BUILD_VERSION -> BuildVersionBlock(c)
      [] c.cmd = LC_SYMTAB -> SymtabBlock(c)
      [] c.cmd = LC_DYSYMTAB -> DysymtabBlock(c)
      [] OTHER -> [title |-> "unknown opcode encountered", tag |-> Hex32(c.cmd), lines |-> <<>>]

PrettyPrint ==
    /\ pc = "print"
    /\ out' = << HeaderBlock(object_file) >>
                \o [i \in 1..object_file.number_of_load_commands |->
                       CommandBlock(object_file.commands[i])]
    /\ pc' = "return"
    /\ UNCHANGED <<argc, opened, file, seekable, pos, object_file, string_table, seeks,
                   short_read, exit_status, diag, input>>

\* main: return EXIT_SUCCESS
Return ==
    /\ pc = "return"
    /\ exit_status' = EXIT_SUCCESS
    /\ pc' = "exited"
    /\ UNCHANGED <<argc, opened, file, seekable, pos, object_file, string_table, seeks,
                   short_read, diag, out, input>>

Next ==
    \/ MainUsage
    \/ MainOpen
    \/ ParseHeader
    \/ ParseSegment64
    \/ ParseDysymtab
    \/ ParseSymtab
    \/ ParseBuildVersion
    \/ ParseDefault
    \/ ResolveSymtab
    \/ PrettyPrint
    \/ Return

Spec == Init /\ [][Next]_vars

-----------------------------------------------------------------------------
(* Properties *)

Commands == object_file.commands

Last(q) == q[Len(q)]

\* the first pass of parse_file is over
PassOneOver == opened /\ pc \notin {"main", "header", "loop1"}

\* parse_file has returned
Parsed == opened /\ (pc \in {"print", "return"} \/ (pc = "exited" /\ exit_status = EXIT_SUCCESS))

\* the process has ended with a failure status
Failed == pc = "exited" /\ exit_status # 0

\* the file holds, whole, the commands it was built from, all of recognized tags
WellFormedInput == opened /\ input.cut = 0 /\ ~Has(input.kinds, "dylib")

\* a decoded command equals a written one in tag, size and every body field read
\* from the stream
SameFields(c, w) ==
    /\ c.cmd = w.cmd
    /\ c.cmd_size = w.cmd_size
    /\ IF c.cmd = LC_SYMTAB
       THEN /\ c.body.symoff = w.body.symoff
            /\ c.body.nsyms = w.body.nsyms
            /\ c.body.stroff = w.body.stroff
            /\ c.body.strsize = w.body.strsize
       ELSE c.body = w.body

\* C1: for a file whose header declares ncmds = k and that holds exactly k
\* well-formed commands of recognized tags, parse_file produces exactly k
\* commands, the i-th decoded from the i-th of the stream, every field equal to
\* the value written.
C1_RoundTrip ==
    (WellFormedInput /\ PassOneOver) =>
        /\ Len(Commands) = Len(input.kinds)
        /\ \A i \in 1..Len(Commands) :
              SameFields(Commands[i], WrittenCmds(input.kinds)[i].lc)

\* the same, for the files in which no build-version command with tool entries
\* is followed by another command
C1_RoundTripNoTools ==
    (WellFormedInput /\ PassOneOver
       /\ \A i \in 1..(Len(input.kinds) - 1) : input.kinds[i] # "build1") =>
        /\ Len(Commands) = Len(input.kinds)
        /\ \A i \in 1..Len(Commands) :
              SameFields(Commands[i], WrittenCmds(input.kinds)[i].lc)

\* C2: a command whose tag is not one of the four recognized ones ends the
\* decoding there: the diagnostic names the tag, the exit status is non-zero,
\* no command is stored and no later record is read, the second loop never
\* runs, nothing is rendered, and nothing happens after the exit.
C2_UnsupportedAborts ==
    [][ /\ (pc = "loop1" /\ Whole(file, pos, 4) /\ LE32(file, pos) \notin Recognized) =>
              /\ pc' = "exited"
              /\ diag' = << Line("Encountered unexpected tag with value",
                                 Hex32(LE32(file, pos))) >>
        /\ (pc = "loop1" /\ pc' = "exited") =>
              /\ exit_status' = EXIT_FAILURE
              /\ exit_status' # 0
              /\ Len(diag') = 1
              /\ diag'[1].label = "Encountered unexpected tag with value"
              /\ diag'[1].text \notin {Hex32(t) : t \in Recognized}
              /\ object_file' = object_file
              /\ pos' = NewPos(file, pos, TagSize)
              /\ seeks' = <<>>
              /\ string_table' = Unset
              /\ out' = <<>>
        /\ pc # "exited"
      ]_vars

C2_Witness ==
    /\ Failed
    /\ input = [kinds |-> << "dylib", "symA" >>, cut |-> 0]
    /\ pos = HeaderSize + TagSize
    /\ Commands = <<>>
    /\ seeks = <<>>
    /\ out = <<>>

\* the file ends strictly inside a fixed-size field the decoder reads: inside a
\* word or a name of the header or of a command (every such field has an even
\* size and starts at an even offset), or inside a field of a symbol entry
PlainKinds == {"seg0", "seg2", "dysym", "build0"}

NlistFieldStarts == {0, 4, 5, 6, 8}

EndsInsideField ==
    /\ opened
    /\ \/ /\ \A i \in 1..Len(input.kinds) : input.kinds[i] \in PlainKinds
          /\ input.cut % 2 = 1
       \/ /\ \A i \in 1..Len(input.kinds) : input.kinds[i] \in PlainKinds \cup {"symA"}
          /\ Has(input.kinds, "symA")
          /\ input.cut > Len(StrA)
          /\ input.cut < Len(StrA) + NlistSize * Len(SymsA)
          /\ ((NlistSize * Len(SymsA) - (input.cut - Len(StrA))) % NlistSize) \notin NlistFieldStarts

\* C3: when the input ends strictly inside a fixed-size field of the header, of
\* a command's tag or size, of a command body, of a section record or of a
\* symbol entry, decoding fails and aborts: parse_file never returns.
C3_TruncatedInputAborts == EndsInsideField => ~Parsed

\* the first symbol-table command of a command sequence (0: none)
FirstSymtab(cmds) ==
    IF \E i \in 1..Len(cmds) : cmds[i].cmd = LC_SYMTAB
    THEN CHOOSE i \in 1..Len(cmds) :
            /\ cmds[i].cmd = LC_SYMTAB
            /\ \A k \in 1..(i - 1) : cmds[k].cmd # LC_SYMTAB
    ELSE 0

\* a whole, seekable, well-formed file that every command of is decoded from
CleanInput ==
    /\ WellFormedInput
    /\ seekable
    /\ \A i \in 1..(Len(input.kinds) - 1) : input.kinds[i] # "build1"

\* the name of a symbol: string_table[n_strx..] up to the first NUL
SymbolName(strtab, e) == CStr(SubSeq(strtab, e.n_strx + 1, Len(strtab)))

\* C4: after the second loop the first symbol-table command has attached to it
\* both the string table (the strsize bytes at stroff) and the symbol sequence
\* (the nsyms entries at symoff, in file order, fields as written), so that a
\* symbol's name is string_table[n_strx..] up to the first NUL.
C4_SymtabResolved ==
    (Parsed /\ CleanInput /\ FirstSymtab(Commands) # 0) =>
        LET i == FirstSymtab(Commands)
            t == Commands[i].body
            a == input.kinds[i] = "symA"
        IN  /\ t.symbol_table = Alloc(IF a THEN SymsA ELSE SymsB)
            /\ t.string_table = Alloc(IF a THEN StrA ELSE StrB)
            /\ a => SymbolName(t.string_table.data, t.symbol_table.data[1])
                      = << 109, 97, 105, 110 >>

\* the half of C4 about the symbol sequence alone
C4_SymbolsAttached ==
    (Parsed /\ CleanInput /\ FirstSymtab(Commands) # 0) =>
        LET i == FirstSymtab(Commands)
        IN  Commands[i].body.symbol_table
              = Alloc(IF input.kinds[i] = "symA" THEN SymsA ELSE SymsB)

\* C5: a decoded segment-64 command declaring nsects = n has exactly n
\* sections (n = 0 included), the k-th decoded from the k-th 80-byte record that
\* follows the segment's fixed record in the stream.
C5_Sections ==
    /\ [](\A i \in 1..Len(Commands) :
             Commands[i].cmd = LC_SEGMENT_64 =>
                Len(Commands[i].body.sections) = Commands[i].body.nsects)
    /\ [][ (pc = "loop1" /\ Len(Commands') = Len(Commands) + 1
              /\ Last(Commands').cmd = LC_SEGMENT_64) =>
              LET g == Last(Commands').body
                  base == pos + TagSize + SegmentSize
              IN  /\ Whole(file, pos + TagSize + 56, 4) =>
                        g.nsects = LE32(file, pos + TagSize + 56)
                  /\ Len(g.sections) = g.nsects
                  /\ \A k \in 1..g.nsects :
                        Whole(file, base + SectionSize * (k - 1), SectionSize) =>
                           EncSection(g.sections[k])
                             = SubSeq(file, base + SectionSize * (k - 1) + 1,
                                      base + SectionSize * k)
         ]_vars

C5_Witness ==
    /\ PassOneOver
    /\ input = [kinds |-> << "seg0", "seg2" >>, cut |-> 0]
    /\ Len(Commands) = 2
    /\ Commands[1].body.nsects = 0
    /\ Commands[1].body.sections = <<>>
    /\ Commands[2].body.nsects = 2
    /\ Commands[2].body.sections = << TheSection, TheData >>

SymtabIndices(cmds) == {i \in 1..Len(cmds) : cmds[i].cmd = LC_SYMTAB}

\* C6: with two or more symbol-table commands decoded, the only seeks ever made
\* are the two to the stroff and symoff of the first one in source order, the
\* reads of the second loop start there, and the later symbol-table commands
\* are left unresolved.
C6_FirstSymtabOnly ==
    Cardinality(SymtabIndices(Commands)) >= 2 =>
        LET f == FirstSymtab(Commands)
        IN  /\ \/ seeks = <<>>
               \/ /\ Len(seeks) = 2
                  /\ seeks[1].offset = Commands[f].body.stroff
                  /\ seeks[2].offset = Commands[f].body.symoff
            /\ Parsed =>
                  /\ Len(seeks) = 2
                  /\ Commands[f].body.symbol_table.alloc
                  /\ Len(Commands[f].body.symbol_table.data) = Commands[f].body.nsyms
                  /\ seekable =>
                        pos = NewPos(file, Commands[f].body.symoff,
                                     NlistSize * Commands[f].body.nsyms)
            /\ \A i \in SymtabIndices(Commands) \ {f} :
                  /\ Commands[i].body.symbol_table = Unset
                  /\ Commands[i].body.string_table = Unset

C6_Witness ==
    /\ Parsed
    /\ seekable
    /\ input = [kinds |-> << "symA", "symB" >>, cut |-> 0]
    /\ Commands[1].body.symbol_table = Alloc(SymsA)
    /\ Commands[2].body.symbol_table = Unset
    /\ Commands[2].body.stroff # Commands[1].body.stroff
    /\ Commands[2].body.symoff # Commands[1].body.symoff
    /\ seeks = << [offset |-> StroffA(input.kinds), ok |-> TRUE],
                  [offset |-> SymoffA(input.kinds), ok |-> TRUE] >>

\* C7: with no symbol-table command decoded, the second loop seeks nowhere and
\* reads nothing, leaves the cursor and every decoded command as they were, and
\* parse_file returns without error.
C7_NoSymtabNoOp ==
    [][ (pc = "loop2" /\ SymtabIndices(Commands) = {}) =>
            /\ pos' = pos
            /\ seeks' = seeks
            /\ seeks' = <<>>
            /\ short_read' = short_read
            /\ string_table' = Unset
            /\ object_file' = object_file
            /\ diag' = diag
            /\ exit_status' = exit_status
            /\ pc' = "print"
      ]_vars

C7_Witness ==
    /\ pc = "print"
    /\ input = [kinds |-> << "seg2", "dysym" >>, cut |-> 0]
    /\ Len(Commands) = 2
    /\ SymtabIndices(Commands) = {}
    /\ seeks = <<>>
    /\ pos = Len(file)

\* C8: when the seek to stroff or to symoff cannot be honored (the offset is out
\* of range, or the stream is not seekable), decoding fails and aborts.
C8_SeekFailureAborts ==
    (\E k \in 1..Len(seeks) : ~seeks[k].ok \/ seeks[k].offset > Len(file)) => Failed

TagName(cmd) ==
    CASE cmd = LC_SEGMENT_64 -> "LC_SEGMENT_64"
      [] cmd = LC_SYMTAB -> "LC_SYMTAB"
      [] cmd = LC_DYSYMTAB -> "LC_DYSYMTAB"
      [] cmd = LC_BUILD_VERSION -> "LC_BUILD_VERSION"
      [] OTHER -> "?"

Shown(b, l, t) == \E k \in 1..Len(b.lines) : b.lines[k].label = l /\ b.lines[k].text = t

\* C9: the report has, after the header block, one block per decoded command,
\* in order, showing the command's own tag name and the value of each of its
\* decoded fields, the sections of a segment and the symbol entries of a
\* resolved symtab included.
C9_ReportComplete ==
    (opened /\ out # <<>>) =>
        /\ Len(out) = 1 + Len(Commands)
        /\ \A i \in 1..Len(Commands) :
              LET c == Commands[i]
                  b == out[i + 1]
              IN  /\ b.title = TagName(c.cmd)
                  /\ b.tag = Hex32(c.cmd)
                  /\ c.cmd = LC_SEGMENT_64 =>
                        /\ Shown(b, "segname", CStr(c.body.segname))
                        /\ Shown(b, "vmaddr", Hex64(c.body.vmaddr))
                        /\ Shown(b, "vmsize", Hex64(c.body.vmsize))
                        /\ Shown(b, "fileoff", Hex64(c.body.fileoff))
                        /\ Shown(b, "filesize", Hex64(c.body.filesize))
                        /\ Shown(b, "maxprot", Hex32(c.body.maxprot))
                        /\ Shown(b, "initprot", Hex32(c.body.initprot))
                        /\ Shown(b, "nsects", Hex32(c.body.nsects))
                        /\ Shown(b, "flags", Hex32(c.body.flags))
                        /\ \A k \in 1..c.body.nsects :
                              Shown(b, "sectname", CStr(c.body.sections[k].sectname))
                  /\ c.cmd = LC_SYMTAB =>
                        /\ Shown(b, "symoff", Hex32(c.body.symoff))
                        /\ Shown(b, "nsyms", Hex32(c.body.nsyms))
                        /\ Shown(b, "stroff", Hex32(c.body.stroff))
                        /\ Shown(b, "strsize", Hex32(c.body.strsize))
                        /\ \A k \in 1..Len(c.body.symbol_table.data) :
                              Shown(b, "n_value", Hex64(c.body.symbol_table.data[k].n_value))
                  /\ c.cmd = LC_DYSYMTAB =>
                        \A k \in 1..Len(DysymtabFields) :
                           Shown(b, DysymtabFields[k], Hex32(c.body[DysymtabFields[k]]))
                  /\ c.cmd = LC_BUILD_VERSION =>
                        /\ Shown(b, "platform", Hex32(c.body.platform))
                        /\ Shown(b, "minos", Hex32(c.body.minos))
                        /\ Shown(b, "sdk", Hex32(c.body.sdk))
                        /\ Shown(b, "ntools", Hex32(c.body.ntools))

\* the part of C9 the code does meet: the blocks of the commands that are not
\* segments show every field read from the stream
C9_NonSegmentFields ==
    (opened /\ out # <<>>) =>
        /\ Len(out) = 1 + Len(Commands)
        /\ \A i \in 1..Len(Commands) :
              LET c == Commands[i]
                  b == out[i + 1]
              IN  /\ c.cmd # LC_SEGMENT_64 => b.title = TagName(c.cmd)
                  /\ c.cmd = LC_SYMTAB =>
                        /\ Shown(b, "symoff", Hex32(c.body.symoff))
                        /\ Shown(b, "strsize", Hex32(c.body.strsize))
                  /\ c.cmd = LC_DYSYMTAB =>
                        \A k \in 1..Len(DysymtabFields) :
                           Shown(b, DysymtabFields[k], Hex32(c.body[DysymtabFields[k]]))
                  /\ c.cmd = LC_BUILD_VERSION => Shown(b, "ntools", Hex32(c.body.ntools))

\* a decode failure has happened: an unrecognized tag was met, a read came up
\* short, or a seek could not be honored
DecodeFailure ==
    /\ opened
    /\ \/ diag # <<>>
       \/ short_read
       \/ \E k \in 1..Len(seeks) : ~seeks[k].ok \/ seeks[k].offset > Len(file)

\* C10: started with argc # 2 the program prints the usage message and exits
\* with status 0 without opening, decoding or rendering anything; a decode
\* failure ends the process with a non-zero status, before any rendering.
C10_ExitStatus ==
    /\ (argc # 2 /\ pc # "main") =>
          /\ pc = "exited"
          /\ exit_status = 0
          /\ ~opened
          /\ Len(diag) = 2
          /\ diag[2].label = "usage"
          /\ object_file.number_of_load_commands = 0
          /\ Commands = <<>>
          /\ out = <<>>
    /\ DecodeFailure =>
          /\ out = <<>>
          /\ pc # "return"
          /\ pc = "exited" => exit_status # 0

\* the part of C10 the code does meet: the usage exit, and the failure exit on
\* an unrecognized tag
C10_UsageAndTagExit ==
    /\ (argc # 2 /\ pc # "main") =>
          /\ pc = "exited"
          /\ exit_status = 0
          /\ ~opened
          /\ out = <<>>
    /\ (opened /\ diag # <<>>) =>
          /\ Failed
          /\ out = <<>>

\* the bytes the claim C11 gives for a decoded command: a function of the tag
\* and of nsects alone
ClaimedAdvance(c) ==
    CASE c.cmd = LC_SEGMENT_64 -> 8 + 64 + 80 * c.body.nsects
      [] c.cmd = LC_SYMTAB -> 8 + 16
      [] c.cmd = LC_DYSYMTAB -> 8 + 72
      [] c.cmd = LC_BUILD_VERSION -> 8 + 16
      [] OTHER -> 0

RECURSIVE ClaimedCursor(_)
ClaimedCursor(cmds) ==
    IF cmds = <<>> THEN 32 ELSE ClaimedCursor(SubSeq(cmds, 1, Len(cmds) - 1))
                                  + ClaimedAdvance(Last(cmds))

\* the first pass is under way or just over: the header and some commands read
InPassOne == opened /\ pc \in {"loop1", "loop2"}

\* the command just decoded is a build-version command written with one tool
\* entry, and every command before it was decoded from its own bytes
AtToolEntry ==
    /\ opened
    /\ input.cut = 0
    /\ Len(Commands) >= 1
    /\ Len(Commands) < Len(input.kinds)
    /\ input.kinds[Len(Commands)] = "build1"
    /\ \A i \in 1..(Len(Commands) - 1) : input.kinds[i] \in PlainKinds \cup {"symA", "symB"}

\* where the tool entry of the build-version command just decoded starts
ToolEntryOffset ==
    HeaderSize + CmdsSize(SubSeq(input.kinds, 1, Len(Commands))) - Len(ToolEntry)

\* C11: throughout the first pass the cursor depends only on the tags and the
\* nsects values read: it is at byte 32 after the header, and every decoded
\* command advances it by exactly 8 + 64 + 80 * nsects (segment-64), 8 + 16
\* (symtab), 8 + 72 (dysymtab) or 8 + 16 (build-version) bytes, whatever cmd_size
\* and ntools say; so after a build-version command with ntools > 0 the cursor
\* is at the first unread tool entry, whose bytes the next iteration takes its
\* tag from.
C11_CursorArithmetic ==
    /\ InPassOne => pos = ClaimedCursor(Commands)
    /\ (AtToolEntry /\ pc = "loop1") =>
          /\ Last(Commands).body.ntools > 0
          /\ pos = ToolEntryOffset
          /\ SubSeq(file, pos + 1, pos + Len(ToolEntry)) = ToolEntry
    /\ (AtToolEntry /\ Failed) =>
          /\ pos = ToolEntryOffset + TagSize
          /\ diag = << Line("Encountered unexpected tag with value",
                            Hex32(LE32(ToolEntry, 0))) >>

\* the same, for the runs in which no read has come up short
C11_CursorWhileWhole ==
    /\ (InPassOne /\ ~short_read) => pos = ClaimedCursor(Commands)
    /\ (AtToolEntry /\ pc = "loop1") =>
          /\ Last(Commands).body.ntools > 0
          /\ Last(Commands).cmd_size = ClaimedAdvance(Last(Commands)) + Len(ToolEntry)
          /\ pos = ToolEntryOffset
          /\ SubSeq(file, pos + 1, pos + Len(ToolEntry)) = ToolEntry
    /\ (AtToolEntry /\ Failed) =>
          /\ pos = ToolEntryOffset + TagSize
          /\ diag = << Line("Encountered unexpected tag with value",
                            Hex32(LE32(ToolEntry, 0))) >>

\* a run in which the case of C11 about tool entries happens
C11_ToolEntryReached ==
    /\ AtToolEntry
    /\ Failed
    /\ input.kinds = << "build1", "symA" >>
    /\ pos = HeaderSize + TagSize + BuildVersionSize + TagSize

\* what the cursor is in every run: the claimed offset, held back by the end of
\* the file
C11_CursorClipped == InPassOne => pos = Min(ClaimedCursor(Commands), Len(file))

====
